---- MODULE Spec2Model ----
(***************************************************************************)
(* Model of the EmailChips widget (src/src/components/EmailInputs.tsx).    *)
(* Text is a sequence of one-character strings, so that trim() and         *)
(* toLowerCase() are computed rather than assumed.  One action per user    *)
(* event handler; the limit effect (useEffect) is its own step, which      *)
(* React runs after the render a handler caused and before the next        *)
(* discrete event is handled.                                              *)
(***************************************************************************)
EXTENDS Integers, Sequences, FiniteSets, TLC

\* ---------------------------------------------------------------- bounds
MaxLimit == 2
MaxClock == 1
\* the user stops typing new entries once this many chips are shown
MaxChips == 2

\* ------------------------------------------------------------------ text
Str(a) == <<a>>
Str2(a, b) == <<a, b>>
Str3(a, b, c) == <<a, b, c>>

EmptyStr == <<>>

\* texts a user may have in the entry field when an event fires
RawTexts ==
  { Str(" "), Str("a"), Str3(" ", "A", " "), Str("c"), Str("@"), Str2("@", "b") }

\* lists a host application may pass as initialEmails (<< >>: prop omitted)
InitialEmailLists ==
  { << >>, << Str("@") >>, << Str("A") >>, << Str("A"), Str("A") >>,
    << Str("@"), Str("A") >> }

Undefined == "undefined"

IsWhiteSpace(ch) == ch = " "

LowerChar(ch) ==
  CASE ch = "A" -> "a"
    [] ch = "B" -> "b"
    [] ch = "C" -> "c"
    [] OTHER -> ch

\* String.prototype.toLowerCase
ToLowerCase(s) == [i \in 1..Len(s) |-> LowerChar(s[i])]

RECURSIVE TrimStart(_)
TrimStart(s) ==
  IF s = <<>> THEN <<>>
  ELSE IF IsWhiteSpace(Head(s)) THEN TrimStart(Tail(s)) ELSE s

RECURSIVE TrimEnd(_)
TrimEnd(s) ==
  IF s = <<>> THEN <<>>
  ELSE IF IsWhiteSpace(s[Len(s)]) THEN TrimEnd(SubSeq(s, 1, Len(s) - 1)) ELSE s

\* String.prototype.trim
Trim(s) == TrimEnd(TrimStart(s))

\* the value is trimmed but its case is kept
Normalize_KeepCase(s) == Trim(s)

\* inputRef.current.value.trim().toLowerCase()
Normalize(s) == ToLowerCase(Trim(s))

HasAt(s) == \E i \in 1..Len(s) : s[i] = "@"

\* the validateEmail prop: absent, or a format check (App.tsx passes one)
Validators == { Undefined, "format" }

\* the validator is never consulted
Validate_AlwaysValid(v, value) == TRUE

\* validateEmail !== undefined ? validateEmail(value) : true
Validate(v, value) == IF v # Undefined THEN HasAt(value) ELSE TRUE

\* ----------------------------------------------------------------- state
VARIABLES
  component,       \* the copy of the widget that is mounted
  limit, required, validateEmail, initialEmails,   \* props
  chips, disableInput, requiredValidation, limitValidation,  \* useState
  closure,         \* the chips the handlers bound by the last render see
  inputValue,      \* inputRef.current.value of the mounted <input>
  effectDeps,      \* chips.length the limit effect last ran with (-1: never)
  clock,           \* the last value Date.now() returned
  cbCalls,         \* onChipChange invocations made by the last handler
  cbLast,          \* <<list>> last passed to onChipChange, <<>> if none yet
  lastOp,          \* the last step taken and its outcome
  run              \* the values committed since mount, see Track

props == <<component, limit, required, validateEmail, initialEmails>>
hooks == <<chips, disableInput, requiredValidation, limitValidation>>
obs == <<cbCalls, cbLast, lastOp, run>>
vars == <<props, hooks, closure, inputValue, effectDeps, clock, obs>>

\* the limit prop: << >> when omitted, << n >> when set to n
NoLimit == << >>
Limits == { NoLimit } \cup { << n >> : n \in 1..MaxLimit }

\* the chips are handed out as they are, key included
emailChipsToEmailData_WithKey(cs) == cs

\* const emailChipsToEmailData = (chips) => chips.map(...)
emailChipsToEmailData(cs) ==
  [i \in 1..Len(cs) |-> [email |-> cs[i].email, valid |-> cs[i].valid]]

\* every seeded chip gets the key now
SeedChips_SameKey(emails, now) ==
  [j \in 1..Len(emails) |-> [email |-> emails[j], valid |-> TRUE, key |-> now]]

\* initialEmails?.map((email, i) => ({ email, valid: true, key: now - i })) ?? []
SeedChips(emails, now) ==
  [j \in 1..Len(emails) |-> [email |-> emails[j], valid |-> TRUE, key |-> now - (j - 1)]]

Mounted ==
  [kind |-> "mount", result |-> "none", target |-> 0,
   was |-> FALSE, before |-> << >>, seen |-> << >>, raw |-> EmptyStr,
   prev |-> "other"]

\* the first render of EmailChips (EmailInputs.tsx) or of EmailInput, the
\* copy of the widget whose <input> has no onBlur
Mount(c) ==
  /\ component = c
  /\ limit \in Limits
  /\ required \in BOOLEAN
  /\ validateEmail \in Validators
  /\ initialEmails \in InitialEmailLists
  /\ clock = 0
  /\ chips = SeedChips(initialEmails, 0)
  /\ closure = chips
  /\ disableInput = FALSE
  /\ requiredValidation = FALSE
  /\ limitValidation = FALSE
  /\ inputValue = EmptyStr
  /\ effectDeps = -1
  /\ cbCalls = 0
  /\ cbLast = <<>>
  /\ lastOp = Mounted
  /\ run = [tracked |-> chips = << >>, values |-> << >>]

Init == Mount("EmailChips")

InitEmailInput == Mount("EmailInput")

HandlerKinds == { "enter", "blur", "backspace", "click" }

\* whether the latest handler invocation so far appended a valid chip while
\* the required flag was set
LatestHandler ==
  IF lastOp.kind \in HandlerKinds
  THEN IF lastOp.result = "addedValid" /\ lastOp.was THEN "validAfterFlag" ELSE "other"
  ELSE lastOp.prev

\* what the last step did: the event, the branch taken, the position of the
\* chip it was given, the state it started from (required flag, chips, text
\* in the entry field), the chips its handler saw and the handler invocation
\* that preceded it
Op(kind, result, target) ==
  [kind |-> kind, result |-> result, target |-> target,
   was |-> requiredValidation, before |-> chips, seen |-> closure,
   raw |-> inputValue, prev |-> LatestHandler]

\* a step that runs no handler (the limit effect, an edit of the text)
Passive(kind, result) ==
  [Op(kind, result, 0) EXCEPT !.raw = EmptyStr, !.seen = << >>]

Record(op) == lastOp' = op

\* the record of a history that is no longer followed
Untracked == [tracked |-> FALSE, values |-> << >>]

\* the values updateChips was given since mount, in order; followed while
\* the collection was empty at mount, every handler run so far was
\* updateChips on the mounted <input> and no value came twice
Track(value) ==
  IF run.tracked /\ \A i \in 1..Len(run.values) : run.values[i] # value
  THEN [run EXCEPT !.values = Append(@, value)]
  ELSE Untracked

\* the render is settled: the render that follows a change of chips is done
\* and no limit effect is pending
Settled == effectDeps = Len(chips)

\* the limit is compared with < instead of <=
LimitReached_Strict(lim, n) == lim # NoLimit /\ lim[1] # 0 /\ lim[1] < n

\* !!limit && limit <= chips.length
LimitReached(lim, n) == lim # NoLimit /\ lim[1] # 0 /\ lim[1] <= n

\* the handlers bound by the first render stay bound
Rerender_KeepHandlers == closure' = closure

\* a render binds handleKeyDown, updateChips and onChipClick anew; they
\* close over the chips of that render
Rerender == closure' = chips

\* the effect shows the limit message but leaves the entry field enabled
LimitEffect_MessageOnly ==
  /\ ~Settled
  /\ limitValidation' = LimitReached(limit, Len(chips))
  /\ effectDeps' = Len(chips)
  /\ Rerender
  /\ Record(Passive("effect", "none"))
  /\ UNCHANGED <<props, chips, disableInput, requiredValidation, inputValue,
                 clock, cbCalls, cbLast, run>>

\* the render after a change of chips, and its effect:
\* useEffect(() => {...}, [chips.length, limit])
LimitEffect ==
  /\ ~Settled
  /\ Rerender
  /\ LET disable == LimitReached(limit, Len(chips)) IN
       /\ disableInput' = disable
       /\ limitValidation' = disable
       \* the <input> is rendered only while !disableInput; a newly mounted
       \* element starts empty
       /\ inputValue' = IF disable \/ disableInput THEN EmptyStr ELSE inputValue
  /\ effectDeps' = Len(chips)
  /\ Record(Passive("effect",
               IF LimitReached(limit, Len(chips)) = disableInput THEN "none"
               ELSE IF disableInput THEN "enabled" ELSE "disabled"))
  /\ UNCHANGED <<props, chips, requiredValidation, clock, cbCalls, cbLast, run>>

\* the user edits the uncontrolled <input>
Type(raw) ==
  /\ Settled /\ ~disableInput
  /\ inputValue # raw
  /\ Len(chips) < MaxChips
  /\ inputValue' = raw
  /\ Record(Passive("type", "none"))
  /\ UNCHANGED <<props, hooks, closure, effectDeps, clock, cbCalls, cbLast, run>>

\* only valid chips are searched
chipExists_ValidOnly(cs, value) ==
  \E i \in 1..Len(cs) : cs[i].email = value /\ cs[i].valid

\* chips.some((chip) => chip.email === value)
chipExists(cs, value) == \E i \in 1..Len(cs) : cs[i].email = value

\* chips.filter((chip) => chip.valid)
ValidChips(cs) == SelectSeq(cs, LAMBDA chip : chip.valid)

\* the flag is cleared whenever a valid chip is present after the append
RequiredAfterAdd_ClearIfAnyValid(req, valid, cs, current) ==
  IF req /\ ~valid /\ Len(ValidChips(cs)) = 0 THEN TRUE ELSE FALSE

\* a valid append leaves the flag as it was
RequiredAfterAdd_NeverCleared(req, valid, cs, current) ==
  IF req /\ ~valid
  THEN IF Len(ValidChips(cs)) = 0 THEN TRUE ELSE current
  ELSE current

\* updateChips, lines 110-117: the required flag after an append
RequiredAfterAdd(req, valid, cs, current) ==
  IF req /\ ~valid
  THEN IF Len(ValidChips(cs)) = 0 THEN TRUE ELSE current
  ELSE FALSE

\* the new chip is put in front of the others
AppendChip_Front(cs, chip) == << chip >> \o cs

\* const updatedChips = [...chips, newChip]
AppendChip(cs, chip) == Append(cs, chip)

\* values Date.now() may return next: the clock never runs backwards
Nows == clock..MaxClock

\* const updateChips = () => {...}; now is what Date.now() returns if called
updateChips(kind, now) ==
  IF disableInput
  THEN \* if (!inputRef.current) return;
       /\ Record(Op(kind, "detached", 0))
       /\ cbCalls' = 0
       /\ UNCHANGED <<hooks, inputValue, cbLast, clock, run>>
  ELSE LET value == Normalize(inputValue) IN
       IF value = EmptyStr
       THEN \* if (!value) return;
            /\ Record(Op(kind, "empty", 0))
            /\ cbCalls' = 0
            /\ run' = Track(value)
            /\ UNCHANGED <<hooks, inputValue, cbLast, clock>>
       ELSE IF chipExists(closure, value)
       THEN /\ inputValue' = EmptyStr
            /\ Record(Op(kind, "duplicate", 0))
            /\ cbCalls' = 0
            /\ run' = Track(value)
            /\ UNCHANGED <<hooks, cbLast, clock>>
       ELSE LET valid == Validate(validateEmail, value)
                newChip == [email |-> value, valid |-> valid, key |-> now]
                updatedChips == AppendChip(closure, newChip)
            IN /\ requiredValidation' =
                    RequiredAfterAdd(required, valid, closure, requiredValidation)
               /\ chips' = updatedChips
               /\ cbCalls' = 1
               /\ cbLast' = << emailChipsToEmailData(updatedChips) >>
               /\ inputValue' = EmptyStr
               /\ clock' = now
               /\ run' = Track(value)
               /\ Record(Op(kind, IF valid THEN "addedValid" ELSE "addedInvalid", 0))
               /\ UNCHANGED <<disableInput, limitValidation>>

\* the count is compared with < instead of <=
isOnlyOneValidChip_Strict(cs) == Len(ValidChips(cs)) < 1

\* const isOnlyOneValidChip = () => chips.filter((chip) => chip.valid).length <= 1
isOnlyOneValidChip(cs) == Len(ValidChips(cs)) <= 1

\* every valid chip is protected, not only the last one
DeleteRefused_AnyValid(req, removedChip, cs) == req /\ removedChip.valid

\* required && removedChip.valid && isOnlyOneValidChip()
DeleteRefused(req, removedChip, cs) ==
  req /\ removedChip.valid /\ isOnlyOneValidChip(cs)

\* chips.filter((chip) => chip.key !== removedChip.key)
FilterKey(cs, key) == SelectSeq(cs, LAMBDA chip : chip.key # key)

\* const deleteChip = (removedChip) => {...}; i is the position of removedChip
deleteChip(kind, i) ==
  LET removedChip == closure[i] IN
  IF DeleteRefused(required, removedChip, closure)
  THEN /\ requiredValidation' = TRUE
       /\ Record(Op(kind, "refused", i))
       /\ cbCalls' = 0
       /\ run' = Untracked
       /\ UNCHANGED <<chips, disableInput, limitValidation, inputValue, cbLast>>
  ELSE LET updatedChips == FilterKey(closure, removedChip.key) IN
       /\ chips' = updatedChips
       /\ cbCalls' = 1
       /\ cbLast' = << emailChipsToEmailData(updatedChips) >>
       /\ Record(Op(kind, "removed", i))
       /\ run' = Untracked
       /\ UNCHANGED <<disableInput, requiredValidation, limitValidation, inputValue>>

\* handleKeyDown, event.key === "Enter"
Enter ==
  /\ Settled /\ ~disableInput
  /\ \E now \in Nows : updateChips("enter", now)
  /\ UNCHANGED <<props, closure, effectDeps>>

\* the <input> loses focus and no handler is bound to the event
Unbound(kind) ==
  /\ Record(Op(kind, "unbound", 0))
  /\ cbCalls' = 0
  /\ UNCHANGED <<hooks, inputValue, cbLast, clock, run>>

\* onBlur={updateChips}
Blur ==
  /\ Settled /\ ~disableInput
  /\ IF component = "EmailChips"
     THEN \E now \in Nows : updateChips("blur", now)
     ELSE Unbound("blur")
  /\ UNCHANGED <<props, closure, effectDeps>>

\* updateChips reached while the <input> is not rendered (inputRef.current
\* is null): the focused element was removed when the limit was reached
DetachedBlur ==
  /\ Settled /\ disableInput
  /\ IF component = "EmailChips"
     THEN \E now \in Nows : updateChips("blur", now)
     ELSE Unbound("blur")
  /\ UNCHANGED <<props, closure, effectDeps>>

\* the first chip is passed instead of the last
LastIndex_First(cs) == 1

\* chips[chips.length - 1]
LastIndex(cs) == Len(cs)

\* handleKeyDown, event.key === "Backspace"
Backspace ==
  /\ Settled /\ ~disableInput
  /\ IF inputValue = EmptyStr /\ Len(closure) # 0
     THEN deleteChip("backspace", LastIndex(closure))
     ELSE \* the key's default action edits the text
          /\ inputValue' = SubSeq(inputValue, 1, Len(inputValue) - 1)
          /\ Record(Op("backspace", "none", 0))
          /\ cbCalls' = 0
          /\ UNCHANGED <<hooks, cbLast, run>>
  /\ UNCHANGED <<props, closure, effectDeps, clock>>

\* onChipClick={(event, chip) => { event.stopPropagation(); deleteChip(chip); }}
Click(i) ==
  /\ Settled
  /\ i \in 1..Len(closure)
  /\ deleteChip("click", i)
  /\ UNCHANGED <<props, closure, effectDeps, clock>>

Next ==
  \/ LimitEffect
  \/ \E raw \in RawTexts \cup { EmptyStr } : Type(raw)
  \/ Enter
  \/ Blur
  \/ DetachedBlur
  \/ Backspace
  \/ \E i \in 1..Len(closure) : Click(i)

Spec == Init /\ [][Next]_vars

SpecEmailInput == InitEmailInput /\ [][Next]_vars

\* ------------------------------------------------------------ properties
\* two emails are the same when compared trimmed and without regard to case
SameEmail(x, y) == ToLowerCase(Trim(x)) = ToLowerCase(Trim(y))

NoSharedEmail(cs) ==
  \A i, j \in 1..Len(cs) : i < j => ~SameEmail(cs[i].email, cs[j].email)

IsNormalized(s) == ToLowerCase(Trim(s)) = s

SeedsNormalizedDistinct ==
  /\ \A i \in 1..Len(initialEmails) : IsNormalized(initialEmails[i])
  /\ \A i, j \in 1..Len(initialEmails) : i < j => initialEmails[i] # initialEmails[j]

\* the last step ran updateChips with the entry field mounted
Committed == lastOp.kind \in { "enter", "blur" } /\ lastOp.result # "detached"

\* the last step appended a chip
Added == Committed /\ lastOp.result \in { "addedValid", "addedInvalid" }

\* the last step ran deleteChip on the chip at position lastOp.target
DeleteTried == lastOp.kind \in { "click", "backspace" } /\ lastOp.target >= 1

NumValid(cs) == Cardinality({ i \in 1..Len(cs) : cs[i].valid })

\* C1 as stated: in every reachable state, whatever initialEmails was, no two
\* chips have the same email compared trimmed and case-insensitively.
C1_AnySeedsNoSharedEmail == NoSharedEmail(chips)

\* C1 amended: when the entries of initialEmails are pairwise distinct and
\* already trimmed and lower-case, no two chips have the same email compared
\* trimmed and case-insensitively, in every reachable state.
C1_NoSharedEmail == SeedsNormalizedDistinct => NoSharedEmail(chips)

\* a seeded chip and a committed chip side by side, after a commit
C1_Witness ==
  /\ SeedsNormalizedDistinct /\ initialEmails # << >>
  /\ Added /\ Len(chips) = 2 /\ Len(lastOp.before) = 1

\* C2: with required active, deleteChip (from a click or from Backspace) on a
\* valid chip that is the only valid chip leaves the chip list as it was, sets
\* the required flag and does not call onChipChange.
C2_LastValidDeleteRefused ==
  ( /\ DeleteTried /\ required
    /\ lastOp.before[lastOp.target].valid
    /\ NumValid(lastOp.before) = 1 )
  => /\ chips = lastOp.before
     /\ requiredValidation = TRUE
     /\ cbCalls = 0

\* Backspace on the only valid chip, standing after an invalid one, with the
\* flag not yet set
C2_Witness ==
  /\ DeleteTried /\ required /\ lastOp.kind = "backspace"
  /\ lastOp.before[lastOp.target].valid
  /\ NumValid(lastOp.before) = 1
  /\ Len(lastOp.before) = 2 /\ ~lastOp.was

\* C3: once the limit effect has run (also right after the first render),
\* disableInput holds exactly when a limit is set and the chip count has
\* reached it, and limitValidation has the same value.
C3_LimitFlags ==
  Settled =>
    /\ disableInput <=> (limit # NoLimit /\ Len(chips) >= limit[1])
    /\ limitValidation = disableInput

\* a deletion brought the count below the limit and the effect re-enabled entry
C3_Witness ==
  /\ Settled /\ lastOp.kind = "effect" /\ lastOp.result = "enabled"
  /\ ~disableInput /\ limit # NoLimit /\ Len(chips) = limit[1] - 1

\* the public shape of a chip list: email and valid, nothing else
Projection(cs) ==
  [i \in 1..Len(cs) |-> [email |-> cs[i].email, valid |-> cs[i].valid]]

\* the last step ran one of the handlers that may change the chips
Handled == lastOp.kind \in HandlerKinds

\* C4: a commit or delete that changes the chips calls onChipChange exactly
\* once, with the new chips in order as {email, valid}; one that leaves them
\* unchanged does not call it; so the last list passed, if any, is the
\* projection of the current chips.
C4_CallbackTracksChips ==
  /\ (Handled /\ chips # lastOp.before) =>
        (cbCalls = 1 /\ cbLast = << Projection(chips) >>)
  /\ (Handled /\ chips = lastOp.before) => cbCalls = 0
  /\ cbLast # << >> => cbLast[1] = Projection(chips)

\* a deletion that left a chip behind
C4_Witness ==
  /\ DeleteTried /\ chips # lastOp.before /\ Len(chips) >= 1
  /\ cbCalls = 1

\* the chip the last step appended
NewChip == chips[Len(chips)]

\* C5 as stated: after a successful commit the required flag is cleared if
\* the new chip is valid or a valid chip already existed, and set if required
\* is active and no chip is valid after the commit.
C5_ClearedIfAnyValid ==
  Added =>
    /\ (NewChip.valid \/ NumValid(lastOp.before) >= 1) => ~requiredValidation
    /\ (required /\ NumValid(chips) = 0) => requiredValidation

\* C5 amended: after a successful commit the required flag is cleared if the
\* new chip is valid or required is not active; it is set if required is
\* active and no chip is valid after the commit; and it keeps its value when
\* required is active, the new chip is invalid and a valid chip already
\* existed (a flag set by a refused delete stays set).
C5_RequiredFlagAfterAdd ==
  Added =>
    /\ (NewChip.valid \/ ~required) => ~requiredValidation
    /\ (required /\ NumValid(chips) = 0) => requiredValidation
    /\ (required /\ ~NewChip.valid /\ NumValid(lastOp.before) >= 1) =>
          requiredValidation = lastOp.was

\* an invalid value committed while the flag is set and a valid chip exists
C5_Witness ==
  /\ Added /\ required /\ ~NewChip.valid
  /\ NumValid(lastOp.before) = 1 /\ lastOp.was /\ requiredValidation

\* the entered text, trimmed and lower-cased
Entered == ToLowerCase(Trim(lastOp.raw))

IsDuplicate == \E i \in 1..Len(lastOp.before) : lastOp.before[i].email = Entered

\* C6: committing a text whose trimmed, lower-cased form is the email of an
\* existing chip changes neither the chips, the required flag nor the limit
\* flags, calls no callback and clears the entry field.
C6_DuplicateIsNoOp ==
  (Committed /\ IsDuplicate) =>
    /\ chips = lastOp.before
    /\ requiredValidation = lastOp.was
    /\ ~disableInput /\ ~limitValidation /\ Settled
    /\ cbCalls = 0
    /\ inputValue = EmptyStr

\* the duplicate was typed with other casing and surrounding white space
C6_Witness ==
  /\ Committed /\ IsDuplicate /\ lastOp.raw # Entered
  /\ Len(lastOp.raw) = 3

\* C7: with a limit set and reached, a commit attempt changes nothing, calls
\* no callback and the limit message stays; and from at most limit seeded
\* chips the chip count never exceeds the limit.
C7_LimitHolds ==
  limit # NoLimit =>
    /\ (lastOp.kind \in { "enter", "blur" } /\ Len(lastOp.before) >= limit[1]) =>
          (chips = lastOp.before /\ cbCalls = 0 /\ limitValidation)
    /\ Len(initialEmails) <= limit[1] => Len(chips) <= limit[1]

\* a commit attempt at a limit that commits, not seeds, had reached
C7_Witness ==
  /\ limit # NoLimit /\ lastOp.kind = "blur" /\ lastOp.result = "detached"
  /\ Len(chips) = limit[1] /\ Len(initialEmails) < limit[1]

\* before with the chip at position i taken out
RemoveAt(cs, i) == [j \in 1..(Len(cs) - 1) |-> IF j < i THEN cs[j] ELSE cs[j + 1]]

\* C8: with required active and one valid chip V whose deletion was refused,
\* committing a second valid chip clears the required flag, and deleting V
\* then removes V alone, keeps the others in order and calls the callback
\* with the new list.
C8_SecondValidFreesFirst ==
  required =>
    /\ (Added /\ lastOp.was /\ NumValid(lastOp.before) = 1 /\ NewChip.valid) =>
          ~requiredValidation
    /\ ( /\ DeleteTried /\ lastOp.prev = "validAfterFlag"
          /\ NumValid(lastOp.before) = 2
          /\ lastOp.target < Len(lastOp.before)
          /\ lastOp.before[lastOp.target].valid ) =>
          /\ chips = RemoveAt(lastOp.before, lastOp.target)
          /\ cbCalls = 1
          /\ cbLast = << Projection(chips) >>

Rejected(value) == validateEmail # Undefined /\ ~HasAt(value)

IsFresh == Entered # EmptyStr /\ ~IsDuplicate

\* C9: a commit of a fresh, non-empty value the validator rejects appends a
\* chip with valid = false and calls the callback, also when required is
\* active and no chip is valid.
C9_InvalidIsAdded ==
  (Committed /\ IsFresh /\ Rejected(Entered)) =>
    /\ Len(chips) = Len(lastOp.before) + 1
    /\ SubSeq(chips, 1, Len(lastOp.before)) = lastOp.before
    /\ NewChip.email = Entered /\ NewChip.valid = FALSE
    /\ cbCalls = 1

\* a second invalid chip added under required with no valid chip
C9_Witness ==
  /\ Committed /\ IsFresh /\ Rejected(Entered)
  /\ required /\ Len(lastOp.before) = 1 /\ NumValid(lastOp.before) = 0

\* C10: with required active, committing a rejected value into an empty
\* collection adds the chip and sets the required flag; committing next a
\* distinct accepted value clears it.
C10_InvalidThenValid ==
  (required /\ Committed /\ IsFresh) =>
    /\ (lastOp.before = << >> /\ Rejected(Entered)) =>
          (requiredValidation /\ Len(chips) = 1 /\ ~chips[1].valid)
    /\ ( /\ Len(lastOp.before) = 1 /\ ~lastOp.before[1].valid /\ lastOp.was
          /\ ~Rejected(Entered) ) =>
          (~requiredValidation /\ Len(chips) = 2 /\ chips[2].valid)

\* the accepted value committed after the rejected one, the flag being set
C10_Witness ==
  /\ required /\ Committed /\ IsFresh /\ validateEmail # Undefined
  /\ Len(lastOp.before) = 1 /\ ~lastOp.before[1].valid /\ lastOp.was
  /\ ~Rejected(Entered) /\ initialEmails = << >>

\* ------------------------------------------------------------------ C11
\* the chip list holds the values of run, one chip per value, in order
ListIsRun ==
  /\ Len(chips) = Len(run.values)
  /\ \A i \in 1..Len(chips) : chips[i].email = run.values[i]

\* C11 as stated: after any sequence of commits with pairwise distinct
\* normalized values, started from an empty collection, the chip list has
\* one chip per commit, in the order of the commits
C11_OneChipPerCommit == run.tracked => ListIsRun

\* C11: after any sequence of commits with non-empty, pairwise distinct
\* normalized values, started from an empty collection, the chip list has
\* one chip per commit, in the order of the commits
C11_OneChipPerNonEmptyCommit ==
  (run.tracked /\ \A i \in 1..Len(run.values) : run.values[i] # EmptyStr)
    => ListIsRun

C11_Witness ==
  /\ run.tracked
  /\ Len(run.values) = 2
  /\ \A i \in 1..2 : run.values[i] # EmptyStr
  /\ Len(chips) = 2
  /\ lastOp.kind \in { "enter", "blur" }

\* ------------------------------------------------------------------ C12
DistinctKeys(cs) ==
  \A i, j \in 1..Len(cs) : i # j => cs[i].key # cs[j].key

\* C12: right after Initialize the collection holds one chip per entry of
\* initialEmails, in the given order, each valid whatever validateEmail
\* would say, with pairwise distinct keys even for equal emails; without
\* initialEmails it is empty; both message flags are false
C12_SeededAtMount ==
  lastOp.kind = "mount" =>
    /\ Len(chips) = Len(initialEmails)
    /\ \A i \in 1..Len(chips) :
         chips[i].email = initialEmails[i] /\ chips[i].valid
    /\ DistinctKeys(chips)
    /\ initialEmails = << >> => chips = << >>
    /\ ~requiredValidation /\ ~limitValidation

\* two equal seeds that the configured validator would call invalid
C12_Witness ==
  /\ lastOp.kind = "mount"
  /\ Len(chips) = 2
  /\ chips[1].email = chips[2].email
  /\ validateEmail # Undefined
  /\ ~Validate(validateEmail, chips[1].email)

\* ------------------------------------------------------------------ C13
\* the last step changed the collection: a successful commit or delete
ChipOp == Added \/ (DeleteTried /\ lastOp.result = "removed")

\* C13: every successful commit or delete starts from the collection that
\* all earlier operations produced, never from an older snapshot, and its
\* result is that collection with the operation applied: the committed
\* value appended, or the chips carrying the clicked chip's key taken out
C13_AppliedInDispatchOrder ==
  ChipOp =>
    /\ lastOp.seen = lastOp.before
    /\ IF Added
       THEN /\ SubSeq(chips, 1, Len(chips) - 1) = lastOp.before
            /\ chips[Len(chips)].email = ToLowerCase(Trim(lastOp.raw))
       ELSE chips = SelectSeq(lastOp.before,
                      LAMBDA c : c.key # lastOp.before[lastOp.target].key)

\* a delete that leaves a chip and started from a list an earlier commit
\* had produced
C13_Witness ==
  /\ DeleteTried /\ lastOp.result = "removed"
  /\ Len(lastOp.before) > Len(initialEmails)
  /\ chips # << >>

\* ------------------------------------------------------------------ C14
\* the state is what DeleteChip makes of lastOp.before when it is given the
\* chip at position target: a refusal that only sets the required flag, or
\* the removal of the chips with that chip's key and one callback call
DeleteOutcome(target) ==
  LET removedChip == lastOp.before[target] IN
  IF required /\ removedChip.valid /\ NumValid(lastOp.before) <= 1
  THEN /\ chips = lastOp.before
       /\ requiredValidation
       /\ cbCalls = 0
  ELSE /\ chips = SelectSeq(lastOp.before, LAMBDA c : c.key # removedChip.key)
       /\ requiredValidation = lastOp.was
       /\ cbCalls = 1
       /\ cbLast = << Projection(chips) >>

\* C14: Backspace with an empty entry field and a non-empty collection does
\* what DeleteChip does for a click on the last chip, refusal and required
\* flag included; Backspace with text in the field, or with no chips, leaves
\* the chips, the flags and the callback alone
C14_BackspaceDeletesLast ==
  /\ lastOp.kind = "click" => DeleteOutcome(lastOp.target)
  /\ lastOp.kind = "backspace" =>
       /\ ~disableInput /\ ~limitValidation
       /\ IF lastOp.raw = EmptyStr /\ lastOp.before # << >>
          THEN DeleteOutcome(Len(lastOp.before))
          ELSE /\ chips = lastOp.before
               /\ requiredValidation = lastOp.was
               /\ cbCalls = 0

\* Backspace in the empty field took the second of two chips
C14_Witness ==
  /\ lastOp.kind = "backspace" /\ lastOp.raw = EmptyStr
  /\ Len(lastOp.before) = 2
  /\ chips = << lastOp.before[1] >>

\* ------------------------------------------------------------------ C15
\* C15: a successful DeleteChip removes exactly the chip it was given and
\* keeps every other chip, with its email, validity and place in the order;
\* the number of chips goes down by exactly one
C15_RemovesExactlyOne ==
  (DeleteTried /\ lastOp.result = "removed") =>
    /\ Len(chips) = Len(lastOp.before) - 1
    /\ chips = RemoveAt(lastOp.before, lastOp.target)

\* ------------------------------------------------------------------ C16
\* the state is what a commit makes of the text lastOp.raw in the state the
\* last step started from: nothing for an empty value, a cleared field for
\* a duplicate, else a new last chip, the required flag updated, one
\* callback call and a cleared field
CommitOutcome ==
  IF Entered = EmptyStr
  THEN /\ chips = lastOp.before /\ requiredValidation = lastOp.was
       /\ cbCalls = 0 /\ inputValue = lastOp.raw
  ELSE IF IsDuplicate
  THEN /\ chips = lastOp.before /\ requiredValidation = lastOp.was
       /\ cbCalls = 0 /\ inputValue = EmptyStr
  ELSE /\ Len(chips) = Len(lastOp.before) + 1
       /\ SubSeq(chips, 1, Len(lastOp.before)) = lastOp.before
       /\ NewChip.email = Entered
       /\ NewChip.valid = ~Rejected(Entered)
       /\ requiredValidation =
            IF required /\ ~NewChip.valid
            THEN (NumValid(lastOp.before) = 0 \/ lastOp.was)
            ELSE FALSE
       /\ cbCalls = 1 /\ cbLast = << Projection(chips) >>
       /\ inputValue = EmptyStr

\* C16: when the entry field loses focus the chips, the flags, the callback
\* and the entry field end as the commit key would leave them for the same
\* text and state, so typed text is committed and not left behind
C16_BlurCommitsLikeEnter ==
  (lastOp.kind \in { "enter", "blur" } /\ ~disableInput) =>
    /\ CommitOutcome
    /\ ~limitValidation

\* ------------------------------------------------------------------ C17
\* C17: in every reachable state the chips have pairwise distinct keys,
\* whatever nondecreasing values Date.now() returns, also when a commit
\* falls in the same tick as the first render or as another commit
C17_KeysDistinct == DistinctKeys(chips)

\* ------------------------------------------------------------------ C18
\* C18: with required active, a step that starts with at least one valid
\* chip ends with at least one valid chip, so the number of valid chips
\* never goes from one or more to none
C18_ValidChipStays ==
  (required /\ NumValid(lastOp.before) >= 1) => NumValid(chips) >= 1

\* ------------------------------------------------------------------ C19
\* C19 as stated: when the required flag is true, required is configured
\* and no chip is valid
C19_FlagMeansNoValid ==
  requiredValidation => (required /\ NumValid(chips) = 0)

\* C19: when the required flag is true, required is configured and at most
\* one chip is valid (none, or the one whose deletion was refused)
C19_FlagMeansAtMostOneValid ==
  requiredValidation => (required /\ NumValid(chips) <= 1)

\* the flag stands next to the valid chip whose deletion was refused, after
\* a later commit of an invalid value
C19_Witness ==
  /\ requiredValidation /\ NumValid(chips) = 1
  /\ Added /\ lastOp.was /\ ~NewChip.valid
====
